---- MODULE Spec2Model ----
(***************************************************************************)
(* freqle: frequency series (FreqSeries), Allan-type deviation with        *)
(* chopped error estimation (statistics.deviation) and session-wise line   *)
(* styles (plotter._generate_line_props).                                  *)
(*                                                                         *)
(* Conventions                                                             *)
(*   - A Python optional is a sequence: None is <<>>, a value x is <<x>>.  *)
(*   - A float that the code derives by division is an exact fraction      *)
(*     [num, den]; den = 0 with num > 0 is numpy's +inf (x / 0.0).         *)
(*   - An error band bound avg -/+ stdev is the exact number               *)
(*     a + sign * sqrt(r2), kept as [a, r2, sign].                         *)
(***************************************************************************)
EXTENDS Integers, Sequences, FiniteSets, TLC

VARIABLES
    series,      \* the FreqSeries object the caller holds: None or <<object>>
    call,        \* the last operation and its arguments
    pre,         \* the caller's series before the last operation
    err,         \* the exception the last operation raised, or NoError
    ret,         \* the Adev the last deviation() returned: None or <<Adev>>
    trace,       \* what the last deviation() did inside (chops, tau sets, calls)
    prev_style,  \* _generate_line_props.prev_style: None or <<dict>>
    prop_cycler, \* the current axes' prop_cycler: palette index of its next color
    styled       \* the styles returned so far by _generate_line_props, in order

vars == <<series, call, pre, err, ret, trace, prev_style, prop_cycler, styled>>

-----------------------------------------------------------------------------
(* Bounds of the model *)

\* Longest arbitrary timestamp sequence handed to the constructor.
MaxLen == 4
\* Arbitrary timestamps are drawn from 0..MaxTime (seconds).
MaxTime == 3
\* Largest head/tail count handed to trim.
MaxTrim == 2
\* Longest record handed to the deviation with error estimation.
MaxRecord == 21
\* Widest sampling interval in such a record (the others are 1 s).
MaxGap == 2
\* Number of tau values per generated tau set (n_taus; 300 in the code).
NTaus == 3
\* Largest original frequency of a series.
MaxFreq == 3
\* Number of colors in the axes' rotating palette.
PaletteSize == 3
\* Number of _generate_line_props calls followed.
MaxCalls == 6
\* Most curves handed to one plot_deviations call.
MaxCurves == 2
\* Longest record handed to the spectral density (and to the deviation).
MaxLongRecord == 321

-----------------------------------------------------------------------------
(* Python values *)

None == <<>>
Some(x) == <<x>>
IsNone(o) == o = <<>>
Val(o) == o[1]

NoError == "none"
MonotonicError == "ValueError: Times are not monotonically increasing."
ZeroSizeError == "ValueError: zero-size array to reduction operation maximum"
ZeroDivisionError == "ZeroDivisionError"
IndexError == "IndexError"
NonUniformError == "ValueError: Non-uniform sample distance"
IrregularError == "ValueError: Series is too irregular in sample rate"
GeomspaceError == "ValueError: Geometric sequence cannot include zero"
RaggedError == "ValueError: inhomogeneous shape"

Min(a, b) == IF a <= b THEN a ELSE b
Max(a, b) == IF a >= b THEN a ELSE b
Abs(a) == IF a >= 0 THEN a ELSE -a

RECURSIVE GCD(_, _)
GCD(a, b) == IF b = 0 THEN a ELSE GCD(b, a % b)

(* Exact fractions. *)
Rat(n, d) == [num |-> n, den |-> d]
Norm(r) ==
    LET g == GCD(Abs(r.num), Abs(r.den))
    IN  IF g = 0 THEN r ELSE Rat(r.num \div g, r.den \div g)
RatEq(a, b) == a.num * b.den = b.num * a.den
RatGT(a, b) == a.num * b.den > b.num * a.den
RatMax(a, b) == IF RatGT(b, a) THEN b ELSE a
LCM(a, b) == (a \div GCD(a, b)) * b
RatAdd(a, b) ==
    LET l == LCM(a.den, b.den)
    IN  Norm(Rat(a.num * (l \div a.den) + b.num * (l \div b.den), l))
RatSub(a, b) ==
    LET l == LCM(a.den, b.den)
    IN  Norm(Rat(a.num * (l \div a.den) - b.num * (l \div b.den), l))
RatMul(a, b) == Norm(Rat(a.num * b.num, a.den * b.den))
RatDivInt(a, k) == Norm(Rat(a.num, a.den * k))

\* the sum of s[i..Len(s)] added to acc
RECURSIVE RatSumFrom(_, _, _)
RatSumFrom(s, i, acc) ==
    IF acc.den = 0 \/ i > Len(s) THEN acc ELSE RatSumFrom(s, i + 1, RatAdd(acc, s[i]))
RatSum(s) == RatSumFrom(s, 1, Rat(0, 1))

-----------------------------------------------------------------------------
(* FreqSeries (src/freq_series.py) *)

\* pandas: Index.is_monotonic_increasing (equal neighbours are allowed)
is_monotonic_increasing(data) ==
    \A i \in 1..(Len(data) - 1) : data[i].t <= data[i + 1].t

\* Series.iloc[start:] and Series.iloc[:stop], Python slice semantics
ILocFrom(data, start) ==
    LET n == Len(data)
        lo == IF start < 0 THEN Max(n + start, 0) ELSE Min(start, n)
    IN  SubSeq(data, lo + 1, n)
ILocUntil(data, stop) ==
    LET n == Len(data)
        hi == IF stop < 0 THEN Max(n + stop, 0) ELSE Min(stop, n)
    IN  SubSeq(data, 1, hi)

\* np.diff of the timestamps
Diff(data) == [i \in 1..(Len(data) - 1) |-> data[i + 1].t - data[i].t]

\* the k-th smallest entry of a non-empty sequence of numbers
KthSmallest(s, k) ==
    CHOOSE x \in {s[i] : i \in 1..Len(s)} :
        /\ Cardinality({i \in 1..Len(s) : s[i] < x}) < k
        /\ Cardinality({i \in 1..Len(s) : s[i] <= x}) >= k
SeqMax(s) == KthSmallest(s, Len(s))
SeqMin(s) == KthSmallest(s, 1)
\* np.median: the middle entry, or the mean of the two middle entries
Median(s) ==
    LET n == Len(s)
    IN  IF n % 2 = 1
        THEN Rat(KthSmallest(s, (n + 1) \div 2), 1)
        ELSE Norm(Rat(KthSmallest(s, n \div 2) + KthSmallest(s, n \div 2 + 1), 2))

\* FreqSeries._analyze_sample_rate: [err, rate, regularity]
analyze_sample_rate(data) ==
    LET times == Diff(data) IN
    IF Len(times) = 0
    THEN [err |-> ZeroSizeError, rate |-> Rat(0, 1), regularity |-> Rat(0, 1)]
    ELSE
        LET median == Median(times)
            uniformity == RatMax(Norm(Rat(SeqMax(times) * median.den, median.num)),
                                 Norm(Rat(median.num, median.den * SeqMin(times))))
        IN  IF median.num = 0
            THEN [err |-> ZeroDivisionError, rate |-> Rat(0, 1),
                  regularity |-> Rat(0, 1)]
            ELSE [err |-> NoError, rate |-> Rat(median.den, median.num),
                  regularity |-> uniformity]

\* FreqSeries.__init__: [err, obj]
FreqSeriesInit(data, original_freq, session) ==
    IF ~is_monotonic_increasing(data)
    THEN [err |-> MonotonicError, obj |-> None]
    ELSE
        LET a == analyze_sample_rate(data) IN
        IF a.err # NoError
        THEN [err |-> a.err, obj |-> None]
        ELSE [err |-> NoError,
              obj |-> Some([cls |-> "freq_series", data |-> data,
                            org_freq |-> original_freq, session |-> session,
                            rate |-> a.rate, regularity |-> a.regularity])]

\* FreqSeries.trim, in place: the object afterwards
TrimStart(d, start) == IF ~IsNone(start) THEN ILocFrom(d, Val(start)) ELSE d
TrimEnd(d, end) == IF ~IsNone(end) THEN ILocUntil(d, -Val(end)) ELSE d
trim(self, start, end) ==
    [self EXCEPT !.data = TrimEnd(TrimStart(self.data, start), end)]

\* FreqSeries.sampling_regularity and FreqSeries.sample_rate (the cached fields)
sampling_regularity(self) == self.regularity
sample_rate(self) == self.rate

\* FreqSeries.duration: [err, value]
duration(self) ==
    IF Len(self.data) = 0
    THEN [err |-> IndexError, value |-> 0]
    ELSE [err |-> NoError, value |-> self.data[Len(self.data)].t - self.data[1].t]

-----------------------------------------------------------------------------
(* FreqSeries, earlier class (src/model/freq_series.py) *)

\* FreqSeries._calc_sample_rate: [err, rate]
calc_sample_rate(data) ==
    IF Len(data) < 2
    THEN [err |-> IndexError, rate |-> Rat(0, 1)]
    ELSE
        LET guess == data[2].t - data[1].t
            times == Diff(data)
        IN  IF \E i \in 1..Len(times) : 100 * Abs(times[i] - guess) > guess
            THEN [err |-> NonUniformError, rate |-> Rat(0, 1)]
            ELSE IF guess = 0
                 THEN [err |-> ZeroDivisionError, rate |-> Rat(0, 1)]
                 ELSE [err |-> NoError, rate |-> Rat(1, guess)]

\* FreqSeries.__init__: [err, obj]; this class has no regularity (kept as 1)
ModelFreqSeriesInit(data, original_freq, session) ==
    IF ~is_monotonic_increasing(data)
    THEN [err |-> MonotonicError, obj |-> None]
    ELSE
        LET a == calc_sample_rate(data) IN
        IF a.err # NoError
        THEN [err |-> a.err, obj |-> None]
        ELSE [err |-> NoError,
              obj |-> Some([cls |-> "model", data |-> data,
                            org_freq |-> original_freq, session |-> session,
                            rate |-> a.rate, regularity |-> Rat(1, 1)])]

\* FreqSeries.trim, in place: `if start:` / `if end:` skip None and 0
ModelTrimStart(d, start) ==
    IF ~IsNone(start) /\ Val(start) # 0 THEN ILocFrom(d, Val(start)) ELSE d
ModelTrimEnd(d, end) ==
    IF ~IsNone(end) /\ Val(end) # 0 THEN ILocUntil(d, -Val(end)) ELSE d
model_trim(self, start, end) ==
    [self EXCEPT !.data = ModelTrimEnd(ModelTrimStart(self.data, start), end)]

\* the log of a deviation() call that has done nothing yet
NoTrace == [calls |-> 0, depth |-> 0, gates |-> 0, methodRuns |-> 0,
            chops |-> <<>>, chopTaus |-> <<>>, tauGens |-> <<>>]
NoCall == [name |-> "none"]

-----------------------------------------------------------------------------
(* statistics.deviation and generate_taus (src/statistics.py) *)

\* n_chops, the default of _estimate_error
N_CHOPS == 10
\* _OK_IRREGULARITY = 1.05
OK_IRREGULARITY == Rat(21, 20)
\* the deepest nesting of deviation() calls that is followed
RecursionLimit == 2
RecursionError == "RecursionError"

\* np.geomspace(start, stop, num): the tau set it determines
geomspace(start, stop, num) == [start |-> start, stop |-> stop, num |-> num]

\* generate_taus(mmt, n_taus, until): [err, taus]
generate_taus(mmt, until) ==
    LET d == duration(mmt)
        start == Norm(Rat(2 * sample_rate(mmt).den, sample_rate(mmt).num))
        stop == RatMul(Rat(d.value, 1), until)
        none == geomspace(Rat(0, 1), Rat(0, 1), 0)
    IN  IF d.err # NoError THEN [err |-> d.err, taus |-> none]
        ELSE IF stop.num = 0 THEN [err |-> GeomspaceError, taus |-> none]
        ELSE [err |-> NoError, taus |-> geomspace(start, stop, NTaus)]

\* the sum of the samples lo..hi, by halves
RECURSIVE SumVRange(_, _, _)
SumVRange(data, lo, hi) ==
    IF lo > hi THEN 0
    ELSE IF lo = hi THEN data[lo].v
    ELSE SumVRange(data, lo, (lo + hi) \div 2)
         + SumVRange(data, ((lo + hi) \div 2) + 1, hi)
SumV(data) == SumVRange(data, 1, Len(data))

\* method(data, data_type='freq', rate=..., taus=...): [tau, adev].  The
\* estimator is the caller's and returns the taus it evaluated with one
\* deviation each.  It evaluates every tau it is given ("all"), no more taus
\* than it has samples ("samples"), or merges two taus that fall on the same
\* multiple of the sample period ("merged").
Estimator(method, data, rate, taus) ==
    LET kept == CASE method.crops = "all" -> taus.num
                  [] method.crops = "samples" -> Min(taus.num, Len(data))
                  [] method.crops = "merged" -> Max(taus.num - 1, 0)
    IN  [tau |-> [of |-> taus, kept |-> kept],
         adev |-> [j \in 1..kept |-> Rat(((SumV(data) + j) % 7) + 1, 1)]]

\* a gate that also rejects a series exactly at the tolerance
TooIrregularGE(mmt, allowable_irregularity) ==
    ~RatGT(allowable_irregularity, sampling_regularity(mmt))
\* if mmt.sampling_regularity > allowable_irregularity: raise
TooIrregular(mmt, allowable_irregularity) ==
    RatGT(sampling_regularity(mmt), allowable_irregularity)

\* a scaling that divides by the original frequency twice
ScaleTwice(adev, org_freq) ==
    IF ~IsNone(org_freq) /\ Val(org_freq) # 0
    THEN [j \in 1..Len(adev) |->
            RatDivInt(RatDivInt(adev[j], Val(org_freq)), Val(org_freq))]
    ELSE adev
\* if mmt.org_freq: adev /= mmt.org_freq
Scale(adev, org_freq) ==
    IF ~IsNone(org_freq) /\ Val(org_freq) # 0
    THEN [j \in 1..Len(adev) |-> RatDivInt(adev[j], Val(org_freq))]
    ELSE adev

\* a chop that is the caller's object itself
NoCopy(mmt) == [obj |-> mmt, alias |-> TRUE]
\* chop = deepcopy(mmt): the copy, and whether it is the caller's object itself
deepcopy(mmt) == [obj |-> mmt, alias |-> FALSE]

\* chop.trim(start=idx * slice_length, end=(n_chops - idx - 1) * slice_length)
ChopStart(idx, slice_length) == idx * slice_length
ChopEnd(idx, slice_length) == (N_CHOPS - idx - 1) * slice_length

\* a loop that generates the taus anew from every chop
chop_taus_each(taus, chop) ==
    LET g == generate_taus(chop, Rat(1, 10))
    IN  [err |-> g.err, taus |-> g.taus, generated |-> TRUE]
\* if taus is None: taus = generate_taus(chop, until=.1): [err, taus, generated]
chop_taus(taus, chop) ==
    IF IsNone(taus)
    THEN LET g == generate_taus(chop, Rat(1, 10))
         IN  [err |-> g.err, taus |-> g.taus, generated |-> TRUE]
    ELSE [err |-> NoError, taus |-> Val(taus), generated |-> FALSE]

\* dev_matrix.mean(0), dev_matrix.std(0) / np.sqrt(n_chops), column by column
Column(rows, j) == [k \in 1..Len(rows) |-> rows[k][j]]
Mean(col) == RatDivInt(RatSum(col), Len(col))
Variance(col) ==
    LET m == Mean(col)
        off == [k \in 1..Len(col) |-> RatSub(col[k], m)]
    IN  Mean([k \in 1..Len(col) |-> RatMul(off[k], off[k])])
\* the square of dev_stdev
StdErr2(col) == RatDivInt(Variance(col), Len(col))
\* np.array([actual_tau, dev_avg - dev_stdev, dev_avg + dev_stdev])
error_band(actual_tau, rows) ==
    LET dev_avg == [j \in 1..Len(rows[1]) |-> Mean(Column(rows, j))]
        dev_stdev2 == [j \in 1..Len(rows[1]) |-> StdErr2(Column(rows, j))]
    IN  [tau |-> actual_tau,
         lower |-> [j \in 1..Len(rows[1]) |->
                      [a |-> dev_avg[j], r2 |-> dev_stdev2[j], sign |-> -1]],
         upper |-> [j \in 1..Len(rows[1]) |->
                      [a |-> dev_avg[j], r2 |-> dev_stdev2[j], sign |-> 1]]]

\* the counters of two logs, added
JoinLog(a, b) ==
    [a EXCEPT !.calls = @ + b.calls, !.gates = @ + b.gates,
              !.methodRuns = @ + b.methodRuns, !.depth = Max(@, b.depth)]

\* a nested call that estimates errors itself
NestedEstimateOn == TRUE
\* the estimate_error argument of the calls that _estimate_error makes
NestedEstimate == FALSE

RECURSIVE deviation(_, _, _, _, _, _)
RECURSIVE estimate_error(_, _, _, _)
RECURSIVE chop_loop(_, _, _, _, _, _)

\* devs.append(d), d being the deviation of the chop: the loop's state after
\* the pass
append_dev(acc, after, taus, log, d) ==
    IF d.err # NoError
    THEN [acc EXCEPT !.err = d.err, !.mmt = after, !.log = JoinLog(log, d.log)]
    ELSE [err |-> NoError, mmt |-> after, taus |-> Some(taus),
          devs |-> Append(acc.devs, Val(d.out)), log |-> JoinLog(log, d.log)]

\* the chop's taus t, and the deviation of the chop with them
chop_deviation(allowable_irregularity, method, depth, idx, acc, chop, after, t) ==
    IF t.err # NoError
    THEN [acc EXCEPT !.err = t.err, !.mmt = after,
                     !.log = [@ EXCEPT !.chops = Append(@, chop),
                                       !.tauGens = Append(@, idx)]]
    ELSE append_dev(acc, after, t.taus,
                    [acc.log EXCEPT
                        !.chops = Append(@, chop),
                        !.tauGens = IF t.generated THEN Append(@, idx) ELSE @,
                        !.chopTaus = Append(@, t.taus)],
                    deviation(chop, NestedEstimate, Some(t.taus),
                              allowable_irregularity, method, depth + 1))

\* the chop c, trimmed to its window
chop_trimmed(allowable_irregularity, method, depth, idx, acc, c, chop) ==
    chop_deviation(allowable_irregularity, method, depth, idx, acc, chop,
                   IF c.alias THEN chop ELSE acc.mmt,
                   chop_taus(acc.taus, chop))

\* one pass of the loop of deviation._estimate_error;
\* acc = [err, mmt, taus, devs, log]
chop_body(allowable_irregularity, method, slice_length, depth, idx, acc, c) ==
    chop_trimmed(allowable_irregularity, method, depth, idx, acc, c,
                 trim(c.obj, Some(ChopStart(idx, slice_length)),
                      Some(ChopEnd(idx, slice_length))))

\* the `for idx in range(n_chops)` loop of deviation._estimate_error, left
\* when a pass raises
chop_loop(allowable_irregularity, method, slice_length, depth, idx, acc) ==
    IF idx = N_CHOPS \/ acc.err # NoError THEN acc
    ELSE chop_loop(allowable_irregularity, method, slice_length, depth, idx + 1,
                   chop_body(allowable_irregularity, method, slice_length,
                             depth, idx, acc, deepcopy(acc.mmt)))

\* the rows of dev_matrix
dev_rows(devs) == [k \in 1..Len(devs) |-> devs[k].devs]

\* what deviation._estimate_error does with the chops' deviations r
chopped_band(r) ==
    IF r.err # NoError
    THEN [err |-> r.err, band |-> None, mmt |-> r.mmt, log |-> r.log]
    ELSE IF \E k \in 1..Len(r.devs) : Len(r.devs[k].devs) # Len(r.devs[1].devs)
    THEN [err |-> RaggedError, band |-> None, mmt |-> r.mmt, log |-> r.log]
    ELSE [err |-> NoError,
          band |-> Some(error_band(r.devs[1].taus, dev_rows(r.devs))),
          mmt |-> r.mmt, log |-> r.log]

\* deviation._estimate_error(mmt, n_chops): [err, band, mmt, log]
estimate_error(mmt, allowable_irregularity, method, depth) ==
    chopped_band(chop_loop(allowable_irregularity, method,
                           Len(mmt.data) \div N_CHOPS, depth, 0,
                           [err |-> NoError, mmt |-> mmt, taus |-> None,
                            devs |-> <<>>, log |-> NoTrace]))

\* the log of a deviation() call at this depth that did no more than start
Entered(depth) == [NoTrace EXCEPT !.calls = 1, !.depth = depth]

\* return Adev(method.__name__, mmt, tau, adev, error), m being the
\* method's result and e the error estimation's
adev_result(method, depth, m, e) ==
    IF e.err # NoError
    THEN [err |-> e.err, out |-> None, mmt |-> e.mmt,
          log |-> JoinLog([e.log EXCEPT !.depth = Max(@, depth)],
                          [Entered(depth) EXCEPT !.methodRuns = 1])]
    ELSE [err |-> NoError,
          out |-> Some([method_name |-> method.name,
                        measurement |-> e.mmt,
                        taus |-> m.tau,
                        devs |-> Scale(m.adev, e.mmt.org_freq),
                        errors |-> e.band]),
          mmt |-> e.mmt,
          log |-> JoinLog([e.log EXCEPT !.depth = Max(@, depth)],
                          [Entered(depth) EXCEPT !.methodRuns = 1])]

\* the method call and the error estimation of deviation(), t being the taus
\* for the method
run_method(mmt, estimate, t, allowable_irregularity, method, depth) ==
    IF t.err # NoError
    THEN [err |-> t.err, out |-> None, mmt |-> mmt, log |-> Entered(depth)]
    ELSE adev_result(method, depth,
                     Estimator(method, mmt.data, sample_rate(mmt), t.taus),
                     IF estimate
                     THEN estimate_error(mmt, allowable_irregularity, method,
                                         depth)
                     ELSE [err |-> NoError, band |-> None, mmt |-> mmt,
                           log |-> NoTrace])

\* deviation(measurement, estimate_error, taus, allowable_irregularity, method):
\* [err, out, mmt, log]; out is the Adev, mmt the caller's object afterwards
deviation(measurement, estimate, taus, allowable_irregularity, method, depth) ==
    IF depth > RecursionLimit
    THEN [err |-> RecursionError, out |-> None, mmt |-> measurement,
          log |-> Entered(depth)]
    ELSE IF TooIrregular(measurement, allowable_irregularity)
    THEN [err |-> IrregularError, out |-> None, mmt |-> measurement,
          log |-> [Entered(depth) EXCEPT !.gates = 1]]
    ELSE run_method(measurement, estimate,
                    IF IsNone(taus)
                    THEN generate_taus(measurement, Rat(1, 100))
                    ELSE [err |-> NoError, taus |-> Val(taus)],
                    allowable_irregularity, method, depth)

-----------------------------------------------------------------------------
(* statistics.asd (src/statistics.py) *)

OverflowError == "OverflowError: cannot convert float infinity to integer"
NpersegError == "ValueError: nperseg must be a positive integer"
AssertionError == "AssertionError"

\* drop_head, the default of asd
DROP_HEAD == 6

\* int(np.log2(n)) for n >= 1
RECURSIVE Log2(_)
Log2(n) == IF n < 2 THEN 0 ELSE 1 + Log2(n \div 2)

\* n_pow = int(np.log2(len(measurement.data))): [err, value]; np.log2(0) is
\* -inf, which int() refuses
n_pow(data) ==
    IF Len(data) = 0 THEN [err |-> OverflowError, value |-> 0]
    ELSE [err |-> NoError, value |-> Log2(Len(data))]

\* 2**e for a Python int e: an int for e >= 0, a float below 1 otherwise
Pow2(e) == IF e >= 0 THEN Rat(2 ^ e, 1) ELSE Rat(1, 2 ^ (-e))

\* np.sqrt of a power that welch returned
Sqrt(p) == Rat(CHOOSE k \in 0..p.num : k * k = p.num, 1)

\* signal.welch(data, fs, nperseg=..., nfft=...): [err, freqs, powers].  It
\* takes int(nperseg), which must be positive; the bins are k * fs / nfft for
\* k = 0..nfft/2, kept as [fs, nfft, from, count]
welch(data, fs, nperseg, nfft) ==
    IF nperseg.num \div nperseg.den < 1
    THEN [err |-> NpersegError,
          freqs |-> [fs |-> fs, nfft |-> 0, from |-> 0, count |-> 0],
          powers |-> <<>>]
    ELSE [err |-> NoError,
          freqs |-> [fs |-> fs, nfft |-> nfft.num, from |-> 0,
                     count |-> (nfft.num \div 2) + 1],
          powers |-> [j \in 1..((nfft.num \div 2) + 1) |->
                        Rat((((data[1].v + Len(data) + j) % 5) + 1) ^ 2, 1)]]

\* freqs[drop_head:]
DropBins(freqs, drop_head) ==
    [freqs EXCEPT !.from = Min(drop_head, freqs.count),
                  !.count = Max(freqs.count - drop_head, 0)]

\* np.sqrt(powers[drop_head:])
DropAmpls(powers, drop_head) ==
    [j \in 1..Max(Len(powers) - drop_head, 0) |-> Sqrt(powers[j + drop_head])]

RECURSIVE asd(_, _, _, _)
RECURSIVE asd_chop_loop(_, _, _, _)

\* asds.append(d), d being the density of the chop: the loop's state after
\* the pass; acc = [err, mmt, asds, log]
append_asd(acc, after, log, d) ==
    IF d.err # NoError
    THEN [acc EXCEPT !.err = d.err, !.mmt = after, !.log = JoinLog(log, d.log)]
    ELSE [err |-> NoError, mmt |-> after,
          asds |-> Append(acc.asds, Val(d.out)), log |-> JoinLog(log, d.log)]

\* the chop c, trimmed to its window, and its density
asd_chop_trimmed(depth, acc, c, chop) ==
    append_asd(acc, IF c.alias THEN chop ELSE acc.mmt,
               [acc.log EXCEPT !.chops = Append(@, chop)],
               asd(chop, NestedEstimate, DROP_HEAD, depth + 1))

\* one pass of the first loop of asd._estimate_error
asd_chop_body(slice_length, depth, idx, acc, c) ==
    asd_chop_trimmed(depth, acc, c,
                     trim(c.obj, Some(ChopStart(idx, slice_length)),
                          Some(ChopEnd(idx, slice_length))))

\* the `for idx in range(n_chops)` loop of asd._estimate_error, left when a
\* pass raises
asd_chop_loop(slice_length, depth, idx, acc) ==
    IF idx = N_CHOPS \/ acc.err # NoError THEN acc
    ELSE asd_chop_loop(slice_length, depth, idx + 1,
                       asd_chop_body(slice_length, depth, idx, acc,
                                     deepcopy(acc.mmt)))

\* the rows of asd_matrix
asd_rows(asds) == [k \in 1..Len(asds) |-> asds[k].ampls]

\* what asd._estimate_error does with the chops' densities r: the assertion
\* on the bins, then the band
asd_band(r) ==
    IF r.err # NoError
    THEN [err |-> r.err, band |-> None, mmt |-> r.mmt, log |-> r.log]
    ELSE IF \E k \in 1..Len(r.asds) : r.asds[k].freqs # r.asds[1].freqs
    THEN [err |-> AssertionError, band |-> None, mmt |-> r.mmt, log |-> r.log]
    ELSE [err |-> NoError,
          band |-> Some(error_band(r.asds[1].freqs, asd_rows(r.asds))),
          mmt |-> r.mmt, log |-> r.log]

\* asd._estimate_error(mmt, n_chops): [err, band, mmt, log]
asd_estimate_error(mmt, depth) ==
    asd_band(asd_chop_loop(Len(mmt.data) \div N_CHOPS, depth, 0,
                           [err |-> NoError, mmt |-> mmt, asds |-> <<>>,
                            log |-> NoTrace]))

\* return Asd(measurement, freqs[drop_head:], np.sqrt(powers[drop_head:]),
\* error), w being welch's result and e the error estimation's
asd_result(depth, drop_head, w, e) ==
    IF e.err # NoError
    THEN [err |-> e.err, out |-> None, mmt |-> e.mmt,
          log |-> JoinLog([e.log EXCEPT !.depth = Max(@, depth)],
                          [Entered(depth) EXCEPT !.methodRuns = 1])]
    ELSE [err |-> NoError,
          out |-> Some([measurement |-> e.mmt,
                        freqs |-> DropBins(w.freqs, drop_head),
                        ampls |-> DropAmpls(w.powers, drop_head),
                        errors |-> e.band]),
          mmt |-> e.mmt,
          log |-> JoinLog([e.log EXCEPT !.depth = Max(@, depth)],
                          [Entered(depth) EXCEPT !.methodRuns = 1])]

\* the error estimation of asd(), w being welch's result
asd_estimated(measurement, estimate, drop_head, depth, w) ==
    IF w.err # NoError
    THEN [err |-> w.err, out |-> None, mmt |-> measurement,
          log |-> Entered(depth)]
    ELSE asd_result(depth, drop_head, w,
                    IF estimate
                    THEN asd_estimate_error(measurement, depth)
                    ELSE [err |-> NoError, band |-> None, mmt |-> measurement,
                          log |-> NoTrace])

\* the welch call of asd(), np being n_pow
asd_welch(measurement, estimate, drop_head, depth, np) ==
    IF np.err # NoError
    THEN [err |-> np.err, out |-> None, mmt |-> measurement,
          log |-> Entered(depth)]
    ELSE asd_estimated(measurement, estimate, drop_head, depth,
                       welch(measurement.data, sample_rate(measurement),
                             Pow2(np.value - 5), Pow2(np.value - 3)))

\* asd(measurement, estimate_error, drop_head): [err, out, mmt, log]; out is
\* the Asd, mmt the caller's object afterwards
asd(measurement, estimate, drop_head, depth) ==
    IF depth > RecursionLimit
    THEN [err |-> RecursionError, out |-> None, mmt |-> measurement,
          log |-> Entered(depth)]
    ELSE asd_welch(measurement, estimate, drop_head, depth,
                   n_pow(measurement.data))

-----------------------------------------------------------------------------
(* plotter._generate_line_props and _get_style_cycler (src/plotter.py) *)

\* styles = ['-', '-.', '--', (0, [5, 1, 1, 1, 1, 1])]
STYLES == <<"-", "-.", "--", "(0, [5, 1, 1, 1, 1, 1])">>

\* _get_style_cycler(): cycle(styles), as the index of the entry next() returns
get_style_cycler == 0

\* a style iterator that stays on its last entry instead of wrapping around
NextStyleNoWrap(cycler) ==
    [value |-> STYLES[cycler + 1], cycler |-> Min(cycler + 1, Len(STYLES) - 1)]
\* next(cycler) on cycle(styles): the entry returned and the cycler afterwards
NextStyle(cycler) ==
    [value |-> STYLES[cycler + 1], cycler |-> (cycler + 1) % Len(STYLES)]

\* next(plt.gca()._get_lines.prop_cycler)['color']: the color returned (its
\* index in the palette) and the axes' cycler afterwards
NextColor(cycler) ==
    [value |-> cycler, cycler |-> (cycler + 1) % PaletteSize]

\* a test that starts a new style on the first call only
StartsNewStyleFirstOnly(prev, session) == IsNone(prev)
\* prev_style is None or prev_style['session'] != mmt.session
StartsNewStyle(prev, session) ==
    IsNone(prev) \/ Val(prev).session # session

\* _generate_line_props(mmt): [props, prev_style, prop_cycler]
generate_line_props(prev, axes_cycler, session) ==
    LET fresh == StartsNewStyle(prev, session)
        color == NextColor(axes_cycler)
        style == IF fresh
                 THEN [color |-> color.value, session |-> session,
                       style |-> get_style_cycler]
                 ELSE Val(prev)
        line == NextStyle(style.style)
    IN  [props |-> [linestyle |-> line.value, color |-> style.color],
         prev_style |-> Some([style EXCEPT !.style = line.cycler]),
         prop_cycler |-> IF fresh THEN color.cycler ELSE axes_cycler]

\* create_figure(): plt.figure(...) becomes the current figure; the axes that
\* plt.gca() makes for it start their prop_cycler at the palette's first color
create_figure == 0

\* one pass of the `for dev in devs` loop of plot_deviations: r is the
\* result of _generate_line_props(dev.measurement); acc = [prev_style,
\* prop_cycler, styled]
plot_curve(acc, session, r) ==
    [prev_style |-> r.prev_style,
     prop_cycler |-> r.prop_cycler,
     styled |-> Append(acc.styled, [session |-> session,
                                    color |-> r.props.color,
                                    linestyle |-> r.props.linestyle])]

\* the `for dev in devs` loop of plot_deviations, over the curves' sessions
RECURSIVE plot_loop(_, _, _)
plot_loop(sessions, i, acc) ==
    IF i > Len(sessions) THEN acc
    ELSE plot_loop(sessions, i + 1,
                   plot_curve(acc, sessions[i],
                              generate_line_props(acc.prev_style,
                                                  acc.prop_cycler,
                                                  sessions[i])))

\* plot_deviations(deviations, figure): the style state and the styles handed
\* to the curves afterwards
plot_deviations(prev, axes_cycler, history, sessions, figure) ==
    plot_loop(sessions, 1,
              [prev_style |-> prev,
               prop_cycler |-> IF IsNone(figure) THEN create_figure
                               ELSE axes_cycler,
               styled |-> history])

-----------------------------------------------------------------------------
(* Inputs *)

\* the samples a parser hands over: value i at the i-th timestamp
Samples(times) == [i \in 1..Len(times) |-> [t |-> times[i], v |-> i]]

\* every timestamp sequence of at most MaxLen entries from 0..MaxTime
TimeSeqs == UNION {[1..n -> 0..MaxTime] : n \in 0..MaxLen}

OrgFreqs == {None} \cup {Some(f) : f \in 2..MaxFreq}
Sessions == {None, Some("A"), Some("B")}
\* plot_deviations' figure: None, or the current figure
Figures == {None, Some("current")}
\* the sessions of the deviations handed to one plot_deviations call
CurveSessions == UNION {[1..n -> Sessions] : n \in 1..MaxCurves}
Counts == {None} \cup {Some(k) : k \in 0..MaxTrim}
Classes == {"freq_series", "model"}

\* the timestamps of a record of n samples, 1 s apart but for one interval of
\* g seconds after the p-th sample
RecordTimes(n, p, g) == [i \in 1..n |-> (i - 1) + (IF i > p THEN g - 1 ELSE 0)]
Records ==
    {RecordTimes(n, p, g) : n \in 2..MaxRecord, p \in {1, 2, MaxRecord \div 2},
                            g \in 1..MaxGap}

\* the arguments of deviation()
Tolerances == {Rat(1, 1), OK_IRREGULARITY, Rat(3, 2), Rat(2, 1)}
Methods == [name : {"oadev"}, crops : {"all", "samples", "merged"}]
UserTaus == {None, Some(geomspace(Rat(1, 1), Rat(8, 1), NTaus))}
\* the lengths of the long records: around the shortest one welch accepts
\* (2^5), and those whose chops reach it
LongLengths ==
    {2 ^ 5 - 1, 2 ^ 5, 2 ^ 5 + 1} \cup ((N_CHOPS * 2 ^ 5 - 1)..MaxLongRecord)
\* uniformly sampled long records
LongRecords == {RecordTimes(n, n, 1) : n \in LongLengths}
\* asd's drop_head
DropHeads == {0, DROP_HEAD}


-----------------------------------------------------------------------------
(* Operations on the series *)

\* FreqSeries(data, original_freq, session), of either class; a behaviour
\* starts with the one construction whose object the later calls work on
Construct ==
    \E cls \in Classes, times \in TimeSeqs, f \in {None, Some(MaxFreq)} :
        LET r == IF cls = "freq_series"
                 THEN FreqSeriesInit(Samples(times), f, None)
                 ELSE ModelFreqSeriesInit(Samples(times), f, None)
        IN  /\ call = NoCall
            /\ call' = [name |-> "construct", cls |-> cls, times |-> times]
            /\ pre' = series
            /\ err' = r.err
            /\ series' = r.obj
            /\ ret' = None
            /\ trace' = NoTrace
            /\ UNCHANGED <<prev_style, prop_cycler, styled>>

\* series.trim(start, end)
Trim ==
    \E start \in Counts, end \in Counts :
        /\ ~IsNone(series)
        /\ call' = [name |-> "trim", start |-> start, end |-> end]
        /\ pre' = series
        /\ err' = NoError
        /\ series' = Some(IF Val(series).cls = "freq_series"
                          THEN trim(Val(series), start, end)
                          ELSE model_trim(Val(series), start, end))
        /\ ret' = None
        /\ trace' = NoTrace
        /\ UNCHANGED <<prev_style, prop_cycler, styled>>

\* what the caller has after deviation() came back with r
Returned(r) ==
    /\ err' = r.err
    /\ series' = Some(r.mmt)
    /\ ret' = r.out
    /\ trace' = r.log

\* deviation(series, estimate_error, taus, allowable_irregularity, method), once
\* on the series as constructed
Deviation ==
    \E estimate \in BOOLEAN, taus \in UserTaus, allowable \in Tolerances,
       method \in Methods :
        /\ ~IsNone(series)
        /\ Val(series).cls = "freq_series"
        /\ call.name = "construct"
        /\ call' = [name |-> "deviation", estimate_error |-> estimate,
                    taus |-> taus, allowable_irregularity |-> allowable,
                    method |-> method]
        /\ pre' = series
        /\ Returned(deviation(Val(series), estimate, taus, allowable, method, 0))
        /\ UNCHANGED <<prev_style, prop_cycler, styled>>

\* style = _generate_line_props(mmt), for a measurement of some session,
\* plotted into the current axes
GenerateLineProps ==
    \E session \in Sessions :
        LET r == generate_line_props(prev_style, prop_cycler, session)
        IN  /\ Len(styled) < MaxCalls
            /\ prev_style' = r.prev_style
            /\ prop_cycler' = r.prop_cycler
            /\ styled' = Append(styled, [session |-> session,
                                         color |-> r.props.color,
                                         linestyle |-> r.props.linestyle])
            /\ UNCHANGED <<series, call, pre, err, ret, trace>>

\* asd(series, estimate_error, drop_head), once on the series as constructed
Asd ==
    \E estimate \in BOOLEAN, drop_head \in DropHeads :
        /\ ~IsNone(series)
        /\ Val(series).cls = "freq_series"
        /\ call.name = "construct"
        /\ call' = [name |-> "asd", estimate_error |-> estimate,
                    drop_head |-> drop_head]
        /\ pre' = series
        /\ Returned(asd(Val(series), estimate, drop_head, 0))
        /\ UNCHANGED <<prev_style, prop_cycler, styled>>

\* the style state after plot_deviations came back with r
Plotted(r) ==
    /\ prev_style' = r.prev_style
    /\ prop_cycler' = r.prop_cycler
    /\ styled' = r.styled

\* plot_deviations(deviations, figure) for deviations of the given sessions
PlotDeviations ==
    \E figure \in Figures, sessions \in CurveSessions :
        /\ Len(styled) + Len(sessions) <= MaxCalls
        /\ call' = [name |-> "plot_deviations", figure |-> figure,
                    sessions |-> sessions, first |-> Len(styled) + 1]
        /\ Plotted(plot_deviations(prev_style, prop_cycler, styled, sessions,
                                   figure))
        /\ UNCHANGED <<series, pre, err, ret, trace>>

Init ==
    /\ series = None
    /\ call = NoCall
    /\ pre = None
    /\ err = NoError
    /\ ret = None
    /\ trace = NoTrace
    /\ prev_style = None
    /\ prop_cycler = 0
    /\ styled = <<>>

Next == Construct \/ Trim

Spec == Init /\ [][Next]_vars

\* a record has been parsed and constructed; its deviation is computed
InitDev ==
    /\ \E times \in Records, f \in OrgFreqs :
            /\ series = FreqSeriesInit(Samples(times), f, None).obj
            /\ call = [name |-> "construct", cls |-> "freq_series", times |-> times]
    /\ pre = None
    /\ err = NoError
    /\ ret = None
    /\ trace = NoTrace
    /\ prev_style = None
    /\ prop_cycler = 0
    /\ styled = <<>>

NextDev == Deviation

SpecDev == InitDev /\ [][NextDev]_vars

\* the curves of one figure are styled one after the other
NextStyled == GenerateLineProps

SpecStyle == Init /\ [][NextStyled]_vars

\* a series, short or long, handed once to deviation() or to asd()
InitStat ==
    /\ \E times \in Records \cup LongRecords, f \in OrgFreqs :
            /\ series = FreqSeriesInit(Samples(times), f, None).obj
            /\ call = [name |-> "construct", cls |-> "freq_series", times |-> times]
    /\ pre = None
    /\ err = NoError
    /\ ret = None
    /\ trace = NoTrace
    /\ prev_style = None
    /\ prop_cycler = 0
    /\ styled = <<>>

NextStat == Deviation \/ Asd

SpecStat == InitStat /\ [][NextStat]_vars

\* figures are plotted one after the other
NextPlot == PlotDeviations

SpecPlot == Init /\ [][NextPlot]_vars

-----------------------------------------------------------------------------
(* Claims about FreqSeries *)

StrictlyIncreasing(times) ==
    \A i \in 1..(Len(times) - 1) : times[i] < times[i + 1]

\* a trim count: None removes nothing
CountOf(c) == IF IsNone(c) THEN 0 ELSE Val(c)

\* C2: constructing a series from timestamps that are not strictly increasing
\* (some timestamp <= its predecessor, repeats included) fails and produces no
\* series object.
C2_NonMonotonicRejected ==
    (call.name = "construct" /\ ~StrictlyIncreasing(call.times))
        => (err # NoError /\ IsNone(series))

\* C7: trim(h, t) with h + t <= n - 2 leaves exactly the samples at original
\* positions h .. n-t-1 in order; an unset side and a count of 0 remove nothing
\* from that side.
C7_TrimKeepsWindow ==
    (call.name = "trim" /\ err = NoError
        /\ CountOf(call.start) + CountOf(call.end) <= Len(Val(pre).data) - 2)
        => Val(series).data =
               SubSeq(Val(pre).data, CountOf(call.start) + 1,
                      Len(Val(pre).data) - CountOf(call.end))

\* the timestamps of a series' samples
TimesOf(self) == [i \in 1..Len(self.data) |-> self.data[i].t]

\* C8: after any trim the series' sample_rate and sampling_regularity are those
\* derived from the remaining samples (stated for series whose timestamps are
\* strictly increasing).
C8_TrimRecomputesRate ==
    (call.name = "trim" /\ Val(series).cls = "freq_series"
        /\ StrictlyIncreasing(TimesOf(Val(pre)))
        /\ analyze_sample_rate(Val(series).data).err = NoError)
        => /\ RatEq(sample_rate(Val(series)),
                    analyze_sample_rate(Val(series).data).rate)
           /\ RatEq(sampling_regularity(Val(series)),
                    analyze_sample_rate(Val(series).data).regularity)

\* C9: every series that exists after a construct and any trims has at least 2
\* samples; a trim that would leave fewer fails and changes nothing.
C9_AtLeastTwoSamples ==
    /\ ~IsNone(series) => Len(Val(series).data) >= 2
    /\ (call.name = "trim" /\ err # NoError) => series = pre

-----------------------------------------------------------------------------
(* Claims about statistics.deviation *)

\* the last operation was deviation() with error estimation
Estimated == call.name = "deviation" /\ call.estimate_error

\* C1: deviation() fails with the irregular-sampling error exactly when the
\* series' sampling_regularity is above allowable_irregularity; it then fails
\* before the algorithm runs and returns nothing, and at or below the
\* tolerance it never raises that error.
C1_GateExactlyAboveTolerance ==
    call.name = "deviation" =>
        IF RatGT(Val(pre).regularity, call.allowable_irregularity)
        THEN err = IrregularError /\ IsNone(ret) /\ trace.methodRuns = 0
        ELSE err # IrregularError

\* C1 witness: an irregular series exactly at the tolerance is computed, with
\* its error band.
C1_Witness ==
    /\ Estimated
    /\ RatEq(Val(pre).regularity, call.allowable_irregularity)
    /\ RatGT(Val(pre).regularity, Rat(1, 1))
    /\ err = NoError
    /\ ~IsNone(Val(ret).errors)

\* the original positions (1..n) of the samples of the k-th chop
ChopPositions(k) ==
    {trace.chops[k].data[i].v : i \in 1..Len(trace.chops[k].data)}

\* C3: the 10 chops of the error estimation are contiguous windows of the
\* record, pairwise disjoint, of one length, and together cover every sample.
C3_ChopsPartitionRecord ==
    (Estimated /\ Len(trace.chops) = N_CHOPS) =>
        /\ \A k \in 1..N_CHOPS :
              \E lo \in 1..(Len(Val(pre).data) + 1) :
                 trace.chops[k].data =
                    SubSeq(Val(pre).data, lo, lo + Len(trace.chops[k].data) - 1)
        /\ \A j, k \in 1..N_CHOPS :
              j # k => ChopPositions(j) \cap ChopPositions(k) = {}
        /\ \A j, k \in 1..N_CHOPS :
              Len(trace.chops[j].data) = Len(trace.chops[k].data)
        /\ UNION {ChopPositions(k) : k \in 1..N_CHOPS} = 1..Len(Val(pre).data)

\* the tau set generated from the first chop
FirstChopTaus == generate_taus(trace.chops[1], Rat(1, 10)).taus

\* the taus were generated once, from the first chop, and every chop's
\* deviation was given that set
TausShared ==
    /\ trace.tauGens = <<0>>
    /\ \A k \in 1..Len(trace.chopTaus) : trace.chopTaus[k] = FirstChopTaus

\* C4 as stated: the tau set is generated once, from the first chop, every
\* chop's deviation is given that set, and the error band's tau axis is that
\* set.
C4_BandAxisIsSharedSet ==
    (Estimated /\ err = NoError) =>
        /\ TausShared
        /\ Val(Val(ret).errors).tau.of = FirstChopTaus
        /\ Val(Val(ret).errors).tau.kept = FirstChopTaus.num

\* C4 as amended: the tau set is generated once, from the first chop, every
\* chop's deviation is given that set, and the error band's tau axis is the
\* tau sequence the algorithm returned for the first chop, given that set.
C4_TausGeneratedOnce ==
    /\ (Estimated /\ Len(trace.chopTaus) > 0) => TausShared
    /\ (Estimated /\ err = NoError) =>
          /\ Len(trace.chopTaus) = N_CHOPS
          /\ Val(Val(ret).errors).tau =
                Estimator(call.method, trace.chops[1].data,
                          trace.chops[1].rate, FirstChopTaus).tau

\* C4 witness: an error band over chops of an irregular record (the chops'
\* durations differ)
C4_Witness ==
    /\ Estimated
    /\ err = NoError
    /\ \E k \in 1..N_CHOPS :
          /\ Len(trace.chops[k].data) > 0
          /\ duration(trace.chops[k]).value # duration(trace.chops[1]).value

\* the taus deviation() handed to the algorithm for the whole series
MainTaus ==
    IF IsNone(call.taus) THEN generate_taus(Val(pre), Rat(1, 100)).taus
    ELSE Val(call.taus)

\* the deviations the algorithm returns for the chops, before any scaling: row
\* k is the k-th chop's
RawRows ==
    [k \in 1..N_CHOPS |->
        Estimator(call.method, trace.chops[k].data, trace.chops[k].rate,
                  trace.chopTaus[k]).adev]

\* x = y / f ** p
IsDivided(x, y, f, p) == x.num * y.den * (f ^ p) = y.num * x.den

\* the bound is avg + sign * stdev of the unscaled column, divided by f
BoundDivided(bound, sign, avg, stdev2, f) ==
    /\ IsDivided(bound.a, avg, f, 1)
    /\ IsDivided(bound.r2, stdev2, f, 2)
    /\ bound.sign = sign

\* the deviations and, if present, the band bounds are the unscaled ones
\* divided by f once (f = 1 for an unset original frequency)
ScaledOnceBy(f) ==
    LET raw == Estimator(call.method, Val(pre).data, Val(pre).rate, MainTaus).adev
        adev == Val(ret)
    IN  /\ Len(adev.devs) = Len(raw)
        /\ \A j \in 1..Len(raw) : IsDivided(adev.devs[j], raw[j], f, 1)
        /\ ~IsNone(adev.errors) =>
              /\ Len(Val(adev.errors).lower) = Len(RawRows[1])
              /\ Len(Val(adev.errors).upper) = Len(RawRows[1])
              /\ \A j \in 1..Len(RawRows[1]) :
                    /\ BoundDivided(Val(adev.errors).lower[j], -1,
                                    Mean(Column(RawRows, j)),
                                    StdErr2(Column(RawRows, j)), f)
                    /\ BoundDivided(Val(adev.errors).upper[j], 1,
                                    Mean(Column(RawRows, j)),
                                    StdErr2(Column(RawRows, j)), f)

\* C10: with original_frequency set the deviations and the error bounds are
\* each divided by it exactly once; with it unset they are returned unscaled.
C10_ScaledExactlyOnce ==
    (call.name = "deviation" /\ err = NoError) =>
        ScaledOnceBy(IF IsNone(Val(pre).org_freq) THEN 1 ELSE Val(Val(pre).org_freq))

\* C10 witness: a series with an original frequency gets deviations and an
\* error band that is not degenerate
C10_Witness ==
    /\ Estimated
    /\ err = NoError
    /\ ~IsNone(Val(pre).org_freq)
    /\ \E j \in 1..Len(Val(Val(ret).errors).lower) :
          /\ Val(Val(ret).errors).lower[j].a.num > 0
          /\ Val(Val(ret).errors).lower[j].r2.num > 0

-----------------------------------------------------------------------------
(* Claims about plotter._generate_line_props *)

\* the i-th call starts a run: it is the first call or its session differs from
\* the session of the call before
StartsRun(i) == i = 1 \/ styled[i].session # styled[i - 1].session

\* the call that started the run the i-th call belongs to
RunStart(i) ==
    CHOOSE s \in 1..i :
        /\ StartsRun(s)
        /\ \A r \in (s + 1)..i : ~StartsRun(r)

\* C5: the first call, and every call whose session differs from the previous
\* call's, returns the palette's next color (not the previous call's color)
\* and the first dash pattern, also for a session used earlier (A, B, A).
C5_NewSessionNewColor ==
    \A i \in 1..Len(styled) :
        StartsRun(i) =>
            /\ styled[i].linestyle = STYLES[1]
            /\ i = 1 => styled[i].color = 0
            /\ i > 1 =>
                  /\ styled[i].color = (styled[i - 1].color + 1) % PaletteSize
                  /\ styled[i].color # styled[i - 1].color

\* C5 witness: sessions A, B, A
C5_Witness ==
    /\ Len(styled) >= 3
    /\ styled[1].session = Some("A")
    /\ styled[2].session = Some("B")
    /\ styled[3].session = Some("A")
    /\ styled[3].color # styled[1].color

\* C6: the k-th call of a run of calls with one session returns the color
\* chosen at the start of the run and the dash pattern at (k-1) mod 4 of the
\* 4-entry cycle.
C6_RunKeepsColorCyclesDashes ==
    \A i \in 1..Len(styled) :
        /\ styled[i].color = styled[RunStart(i)].color
        /\ styled[i].linestyle = STYLES[((i - RunStart(i)) % 4) + 1]
        /\ Len(STYLES) = 4
        /\ \A a, b \in 1..Len(STYLES) : a # b => STYLES[a] # STYLES[b]

\* C6 witness: the fifth call of a run gets the first dash pattern again
C6_Witness ==
    \E i \in 1..Len(styled) :
        /\ i - RunStart(i) = 4
        /\ styled[i].linestyle = STYLES[1]
        /\ styled[i - 3].linestyle = STYLES[2]

-----------------------------------------------------------------------------
(* Claims about plotter.plot_deviations *)

\* C11: the first curve styled for a new figure gets the palette's first
\* color and the first dash pattern, as if nothing had been styled before,
\* whatever sessions were styled for earlier figures.
C11_NewFigureStartsAfresh ==
    (call.name = "plot_deviations" /\ IsNone(call.figure)) =>
        /\ styled[call.first].color = NextColor(create_figure).value
        /\ styled[call.first].linestyle = STYLES[1]

-----------------------------------------------------------------------------
(* Claims about statistics.deviation and statistics.asd together *)

\* the last operation was deviation() or asd()
Computed == call.name \in {"deviation", "asd"}

\* C12: after deviation() or asd(), returned or raised, with or without error
\* estimation, the caller's series holds the samples, sample rate, regularity,
\* original frequency and session it held before.
C12_SeriesUnchanged ==
    Computed => series = pre

\* C12 witness: an error estimation that trimmed its ten chops and returned
C12_Witness ==
    /\ Computed
    /\ call.estimate_error
    /\ err = NoError
    /\ Len(trace.chops) = N_CHOPS
    /\ \A k \in 1..N_CHOPS :
          Len(trace.chops[k].data) < Len(Val(pre).data)
    /\ series = pre

\* the frequency bins welch gives for the k-th chop, None if asd raises
\* before it has them
ChopBins(k) ==
    LET chop == trace.chops[k]
        np == n_pow(chop.data)
    IN  IF np.err # NoError THEN None
        ELSE LET w == welch(chop.data, sample_rate(chop), Pow2(np.value - 5),
                            Pow2(np.value - 3))
             IN  IF w.err # NoError THEN None ELSE Some(w.freqs)

\* C13: the ten chops of asd's error estimation have one sample count and one
\* sample rate, hence the same frequency bins, and the assertion on the bins
\* does not fail.
C13_ChopsShareBins ==
    (call.name = "asd" /\ call.estimate_error /\ Len(trace.chops) = N_CHOPS) =>
        /\ \A j, k \in 1..N_CHOPS :
              /\ Len(trace.chops[j].data) = Len(trace.chops[k].data)
              /\ sample_rate(trace.chops[j]) = sample_rate(trace.chops[k])
        /\ \A k \in 1..N_CHOPS :
              ~IsNone(ChopBins(k)) /\ ChopBins(k) = ChopBins(1)
        /\ err # AssertionError

\* the error estimation of the last operation was entered
EstimationEntered ==
    Computed /\ call.estimate_error /\ Len(trace.chops) > 0

\* the nested calls the error estimation of the last operation made: one for
\* every chop it made (asd), one for every chop that got its taus (deviation)
NestedCalls ==
    IF call.name = "asd" THEN Len(trace.chops) ELSE Len(trace.chopTaus)

\* C14 as stated: an error estimation makes ten nested calls, none nesting
\* further, eleven invocations in all.
C14_ElevenInvocations ==
    EstimationEntered =>
        /\ trace.calls = N_CHOPS + 1
        /\ trace.depth = 1
        /\ err # RecursionError

\* C14 as amended: an error estimation makes one nested call per chop until
\* one raises, none nesting further: at most eleven invocations in all, and
\* eleven when the last chop was reached, as it was when the call returned.
C14_AtMostElevenInvocations ==
    Computed =>
        /\ err # RecursionError
        /\ trace.depth <= 1
        /\ trace.calls = 1 + NestedCalls
        /\ trace.calls <= N_CHOPS + 1
        /\ ~call.estimate_error => trace.calls = 1
        /\ Len(trace.chops) = N_CHOPS /\ NestedCalls = N_CHOPS
              => trace.calls = N_CHOPS + 1
        /\ (call.estimate_error /\ err = NoError) => trace.calls = N_CHOPS + 1
        /\ (EstimationEntered /\ trace.calls < N_CHOPS + 1) => err # NoError

\* C14 witness: an error estimation that returned after eleven invocations
C14_Witness ==
    /\ EstimationEntered
    /\ err = NoError
    /\ trace.calls = N_CHOPS + 1
    /\ trace.depth = 1

====
